---- MODULE Spec2Model ----
(***************************************************************************)
(* Model of the NLWeb MCP bridge, code/python/                             *)
(* chatbot_interface_streamable_http.py: the response truncator, the       *)
(* backend forwarder and the four handlers registered in serve(); and of   *)
(* code/embedding/sentence_transformer_embedding.py: get_embedding_model.  *)
(*                                                                         *)
(* JSON values are tagged records:                                         *)
(*   [t |-> "null"], [t |-> "bool", b |-> B], [t |-> "int", i |-> I],      *)
(*   [t |-> "str", s |-> Text], [t |-> "list", e |-> <<values>>],          *)
(*   [t |-> "dict", f |-> <<[k |-> key, v |-> value], ...>>]               *)
(* A dict keeps its keys in insertion order, as a Python dict does.        *)
(* A Text is a Python str, run-length encoded: a sequence of runs          *)
(* [c |-> code point, n |-> repetitions], adjacent runs having different   *)
(* code points, so that equal strings have equal encodings.                *)
(***************************************************************************)
EXTENDS Integers, Sequences, FiniteSets, TLC

VARIABLES
    data,        \* truncator harness: the response handed to the truncator
    max_length,  \* truncator harness: the budget handed to the truncator
    result,      \* truncator harness: what the call returned or raised
    tpc,         \* truncator harness: "call" before the call, "done" after
    pc,          \* per invocation: "idle", "awaiting", "forwarded", "done"
    req,         \* per invocation: the handler invoked, with its arguments
    post,        \* per invocation: the JSON-RPC request sent to the backend
    posts,       \* per invocation: the HTTP POSTs issued so far, in order
    reply,       \* per invocation: what the backend did with the request
    outcome,     \* per invocation: what forward_to_nlweb returned or raised
    response,    \* per invocation: what the handler returned or raised
    alive,       \* the server process runs (serve has not been left)
    config,           \* embedding: the model CONFIG names, "" when it names none
    embedding_model,  \* embedding: the module's handle, NoModel for None
    model_lock,       \* embedding: the caller holding _model_lock, 0 when free
    epc,              \* embedding, per caller: position in get_embedding_model
    model_override,   \* embedding, per caller: the argument of its call
    got,              \* embedding, per caller: what its last call returned or raised
    calls,            \* embedding: calls of get_embedding_model made so far
    loads             \* embedding: the calls of SentenceTransformer(...), in order

tvars == <<data, max_length, result, tpc>>
hvars == <<pc, req, post, posts, reply, outcome, response, alive>>
evars == <<config, embedding_model, model_lock, epc, model_override, got, calls, loads>>
vars == <<data, max_length, result, tpc, pc, req, post, posts, reply, outcome,
          response, alive, config, embedding_model, model_lock, epc,
          model_override, got, calls, loads>>

Max(a, b) == IF a >= b THEN a ELSE b

----------------------------------------------------------------------------
(* Python str, run-length encoded *)

Run(c, n) == [c |-> c, n |-> n]

RECURSIVE TextLen(_)
\* len(s)
TextLen(s) == IF s = <<>> THEN 0 ELSE Head(s).n + TextLen(Tail(s))

RECURSIVE Take(_, _)
\* the first k characters of s (all of s when k >= len(s))
Take(s, k) ==
    IF k <= 0 \/ s = <<>> THEN <<>>
    ELSE IF Head(s).n <= k THEN <<Head(s)>> \o Take(Tail(s), k - Head(s).n)
    ELSE <<Run(Head(s).c, k)>>

RECURSIVE Drop(_, _)
\* s without its first k characters
Drop(s, k) ==
    IF s = <<>> THEN <<>>
    ELSE IF k <= 0 THEN s
    ELSE IF Head(s).n <= k THEN Drop(Tail(s), k - Head(s).n)
    ELSE <<Run(Head(s).c, Head(s).n - k)>> \o Tail(s)

\* s + t
Concat(s, t) ==
    IF s = <<>> THEN t
    ELSE IF t = <<>> THEN s
    ELSE IF s[Len(s)].c = t[1].c
         THEN SubSeq(s, 1, Len(s) - 1)
                \o <<Run(t[1].c, s[Len(s)].n + t[1].n)>> \o Tail(t)
         ELSE s \o t

\* s[:k], Python slice semantics: a negative k counts from the end
SliceTo(s, k) ==
    IF k >= 0 THEN Take(s, k) ELSE Take(s, Max(0, TextLen(s) + k))

\* sub in s
Contains(s, sub) ==
    \E k \in 0..(TextLen(s) - TextLen(sub)) :
        Take(Drop(s, k), TextLen(sub)) = sub

RECURSIVE IntText(_)
\* str(i) for an integer i >= 0
IntText(i) == IF i < 10 THEN <<Run(48 + i, 1)>>
              ELSE Concat(IntText(i \div 10), <<Run(48 + (i % 10), 1)>>)

\* s.endswith(suffix)
EndsWith(s, suffix) ==
    /\ TextLen(s) >= TextLen(suffix)
    /\ Drop(s, TextLen(s) - TextLen(suffix)) = suffix

\* the program's string literals, as runs of code points
\* "... (truncated)"
TRUNCATED_MARK == <<Run(46, 3), Run(32, 1), Run(40, 1), Run(116, 1),
    Run(114, 1), Run(117, 1), Run(110, 1), Run(99, 1), Run(97, 1), Run(116,
    1), Run(101, 1), Run(100, 1), Run(41, 1)>>
\* "text"
TEXT == <<Run(116, 1), Run(101, 1), Run(120, 1), Run(116, 1)>>
\* "image"
IMAGE == <<Run(105, 1), Run(109, 1), Run(97, 1), Run(103, 1), Run(101, 1)>>
\* "Error: "
ERROR_PREFIX == <<Run(69, 1), Run(114, 2), Run(111, 1), Run(114, 1), Run(58,
    1), Run(32, 1)>>
\* "Request failed: "
REQUEST_FAILED == <<Run(82, 1), Run(101, 1), Run(113, 1), Run(117, 1),
    Run(101, 1), Run(115, 1), Run(116, 1), Run(32, 1), Run(102, 1), Run(97,
    1), Run(105, 1), Run(108, 1), Run(101, 1), Run(100, 1), Run(58, 1),
    Run(32, 1)>>
\* "HTTP error: "
HTTP_ERROR == <<Run(72, 1), Run(84, 2), Run(80, 1), Run(32, 1), Run(101, 1),
    Run(114, 2), Run(111, 1), Run(114, 1), Run(58, 1), Run(32, 1)>>
\* " - "
DASH == <<Run(32, 1), Run(45, 1), Run(32, 1)>>
\* "An unexpected error occurred: "
UNEXPECTED_ERROR == <<Run(65, 1), Run(110, 1), Run(32, 1), Run(117, 1),
    Run(110, 1), Run(101, 1), Run(120, 1), Run(112, 1), Run(101, 1), Run(99,
    1), Run(116, 1), Run(101, 1), Run(100, 1), Run(32, 1), Run(101, 1),
    Run(114, 2), Run(111, 1), Run(114, 1), Run(32, 1), Run(111, 1), Run(99,
    2), Run(117, 1), Run(114, 2), Run(101, 1), Run(100, 1), Run(58, 1),
    Run(32, 1)>>
\* "Unknown MCP error"
UNKNOWN_MCP_ERROR == <<Run(85, 1), Run(110, 1), Run(107, 1), Run(110, 1),
    Run(111, 1), Run(119, 1), Run(110, 1), Run(32, 1), Run(77, 1), Run(67,
    1), Run(80, 1), Run(32, 1), Run(101, 1), Run(114, 2), Run(111, 1),
    Run(114, 1)>>
\* "Error processing response: "
ERROR_PROCESSING_RESPONSE == <<Run(69, 1), Run(114, 2), Run(111, 1),
    Run(114, 1), Run(32, 1), Run(112, 1), Run(114, 1), Run(111, 1), Run(99,
    1), Run(101, 1), Run(115, 2), Run(105, 1), Run(110, 1), Run(103, 1),
    Run(32, 1), Run(114, 1), Run(101, 1), Run(115, 1), Run(112, 1), Run(111,
    1), Run(110, 1), Run(115, 1), Run(101, 1), Run(58, 1), Run(32, 1)>>
\* "Failed to get prompt "
FAILED_TO_GET_PROMPT == <<Run(70, 1), Run(97, 1), Run(105, 1), Run(108, 1),
    Run(101, 1), Run(100, 1), Run(32, 1), Run(116, 1), Run(111, 1), Run(32,
    1), Run(103, 1), Run(101, 1), Run(116, 1), Run(32, 1), Run(112, 1),
    Run(114, 1), Run(111, 1), Run(109, 1), Run(112, 1), Run(116, 1), Run(32,
    1)>>
\* "Prompt for "
PROMPT_FOR == <<Run(80, 1), Run(114, 1), Run(111, 1), Run(109, 1), Run(112,
    1), Run(116, 1), Run(32, 1), Run(102, 1), Run(111, 1), Run(114, 1),
    Run(32, 1)>>
\* "Prompt: "
PROMPT_COLON == <<Run(80, 1), Run(114, 1), Run(111, 1), Run(109, 1),
    Run(112, 1), Run(116, 1), Run(58, 1), Run(32, 1)>>
\* "Error getting prompt "
ERROR_GETTING_PROMPT == <<Run(69, 1), Run(114, 2), Run(111, 1), Run(114, 1),
    Run(32, 1), Run(103, 1), Run(101, 1), Run(116, 2), Run(105, 1), Run(110,
    1), Run(103, 1), Run(32, 1), Run(112, 1), Run(114, 1), Run(111, 1),
    Run(109, 1), Run(112, 1), Run(116, 1), Run(32, 1)>>
\* "ask_nlw"
ASK_NLW == <<Run(97, 1), Run(115, 1), Run(107, 1), Run(95, 1), Run(110, 1),
    Run(108, 1), Run(119, 1)>>
\* "Connects with the NLWeb server to answer questions"
FALLBACK_DESCRIPTION == <<Run(67, 1), Run(111, 1), Run(110, 2), Run(101, 1),
    Run(99, 1), Run(116, 1), Run(115, 1), Run(32, 1), Run(119, 1), Run(105,
    1), Run(116, 1), Run(104, 1), Run(32, 1), Run(116, 1), Run(104, 1),
    Run(101, 1), Run(32, 1), Run(78, 1), Run(76, 1), Run(87, 1), Run(101,
    1), Run(98, 1), Run(32, 1), Run(115, 1), Run(101, 1), Run(114, 1),
    Run(118, 1), Run(101, 1), Run(114, 1), Run(32, 1), Run(116, 1), Run(111,
    1), Run(32, 1), Run(97, 1), Run(110, 1), Run(115, 1), Run(119, 1),
    Run(101, 1), Run(114, 1), Run(32, 1), Run(113, 1), Run(117, 1), Run(101,
    1), Run(115, 1), Run(116, 1), Run(105, 1), Run(111, 1), Run(110, 1),
    Run(115, 1)>>
\* "query"
QUERY == <<Run(113, 1), Run(117, 1), Run(101, 1), Run(114, 1), Run(121, 1)>>
\* "query string in english"
QUERY_DESCRIPTION == <<Run(113, 1), Run(117, 1), Run(101, 1), Run(114, 1),
    Run(121, 1), Run(32, 1), Run(115, 1), Run(116, 1), Run(114, 1), Run(105,
    1), Run(110, 1), Run(103, 1), Run(32, 1), Run(105, 1), Run(110, 1),
    Run(32, 1), Run(101, 1), Run(110, 1), Run(103, 1), Run(108, 1), Run(105,
    1), Run(115, 1), Run(104, 1)>>
\* "The query string to send to the NLWeb server"
QUERY_SCHEMA_DESCRIPTION == <<Run(84, 1), Run(104, 1), Run(101, 1), Run(32,
    1), Run(113, 1), Run(117, 1), Run(101, 1), Run(114, 1), Run(121, 1),
    Run(32, 1), Run(115, 1), Run(116, 1), Run(114, 1), Run(105, 1), Run(110,
    1), Run(103, 1), Run(32, 1), Run(116, 1), Run(111, 1), Run(32, 1),
    Run(115, 1), Run(101, 1), Run(110, 1), Run(100, 1), Run(32, 1), Run(116,
    1), Run(111, 1), Run(32, 1), Run(116, 1), Run(104, 1), Run(101, 1),
    Run(32, 1), Run(78, 1), Run(76, 1), Run(87, 1), Run(101, 1), Run(98, 1),
    Run(32, 1), Run(115, 1), Run(101, 1), Run(114, 1), Run(118, 1), Run(101,
    1), Run(114, 1)>>
\* "object"
OBJECT == <<Run(111, 1), Run(98, 1), Run(106, 1), Run(101, 1), Run(99, 1),
    Run(116, 1)>>
\* "string"
STRING_TYPE == <<Run(115, 1), Run(116, 1), Run(114, 1), Run(105, 1),
    Run(110, 1), Run(103, 1)>>
\* "user"
USER == <<Run(117, 1), Run(115, 1), Run(101, 1), Run(114, 1)>>
\* "None"
PY_NONE == <<Run(78, 1), Run(111, 1), Run(110, 1), Run(101, 1)>>
\* "True"
PY_TRUE == <<Run(84, 1), Run(114, 1), Run(117, 1), Run(101, 1)>>
\* "False"
PY_FALSE == <<Run(70, 1), Run(97, 1), Run(108, 1), Run(115, 1), Run(101,
    1)>>
\* "faq"
FAQ == <<Run(102, 1), Run(97, 1), Run(113, 1)>>
\* "search"
SEARCH == <<Run(115, 1), Run(101, 1), Run(97, 1), Run(114, 1), Run(99, 1),
    Run(104, 1)>>

\* "error"
ERROR == <<Run(101, 1), Run(114, 2), Run(111, 1), Run(114, 1)>>
\* "message"
LIBRARY_MESSAGE == <<Run(109, 1), Run(101, 1), Run(115, 2), Run(97, 1),
    Run(103, 1), Run(101, 1)>>
\* "All connection attempts failed"
CONNECT_FAILED == <<Run(65, 1), Run(108, 2), Run(32, 1), Run(99, 1),
    Run(111, 1), Run(110, 2), Run(101, 1), Run(99, 1), Run(116, 1), Run(105,
    1), Run(111, 1), Run(110, 1), Run(32, 1), Run(97, 1), Run(116, 2),
    Run(101, 1), Run(109, 1), Run(112, 1), Run(116, 1), Run(115, 1), Run(32,
    1), Run(102, 1), Run(97, 1), Run(105, 1), Run(108, 1), Run(101, 1),
    Run(100, 1)>>
\* "<html>"
NOT_JSON == <<Run(60, 1), Run(104, 1), Run(116, 1), Run(109, 1), Run(108,
    1), Run(62, 1)>>

----------------------------------------------------------------------------
(* JSON values *)

JNull == [t |-> "null"]
JBool(b) == [t |-> "bool", b |-> b]
JInt(i) == [t |-> "int", i |-> i]
JStr(s) == [t |-> "str", s |-> s]
JList(e) == [t |-> "list", e |-> e]
JDict(f) == [t |-> "dict", f |-> f]
KV(k, v) == [k |-> k, v |-> v]

\* isinstance(v, dict), isinstance(v, list)
IsDict(v) == v.t = "dict"
IsList(v) == v.t = "list"

\* k in d
HasKey(d, k) == \E i \in 1..Len(d.f) : d.f[i].k = k

\* d[k], for k in d
Get(d, k) == d.f[CHOOSE i \in 1..Len(d.f) : d.f[i].k = k].v

RECURSIVE FieldsWithout(_, _)
FieldsWithout(f, k) ==
    IF f = <<>> THEN <<>>
    ELSE IF Head(f).k = k THEN FieldsWithout(Tail(f), k)
    ELSE <<Head(f)>> \o FieldsWithout(Tail(f), k)

\* {key: v for key, v in d.items() if key != k}
Without(d, k) == JDict(FieldsWithout(d.f, k))

\* new = dict(d); new[k] = v  (an existing key keeps its position)
WithKey(d, k, v) ==
    IF HasKey(d, k)
    THEN JDict([i \in 1..Len(d.f) |-> IF d.f[i].k = k THEN KV(k, v) ELSE d.f[i]])
    ELSE JDict(Append(d.f, KV(k, v)))

----------------------------------------------------------------------------
(* len(json.dumps(v)): default separators ", " and ": ", ensure_ascii=True *)

\* characters json.dumps writes for one code point inside a string
EscWidth(c) ==
    IF c \in {34, 92, 8, 9, 10, 12, 13} THEN 2      \* \" \\ \b \t \n \f \r
    ELSE IF c >= 32 /\ c <= 126 THEN 1
    ELSE IF c > 65535 THEN 12                       \* a surrogate pair
    ELSE 6                                          \* \uXXXX

RECURSIVE EscLen(_)
EscLen(s) == IF s = <<>> THEN 0
             ELSE Head(s).n * EscWidth(Head(s).c) + EscLen(Tail(s))

RECURSIVE IntLen(_)
IntLen(i) == IF i < 0 THEN 1 + IntLen(0 - i)
             ELSE IF i < 10 THEN 1 ELSE 1 + IntLen(i \div 10)

RECURSIVE len_json_dumps(_)
RECURSIVE SumElems(_)
RECURSIVE SumFields(_)

SumElems(e) == IF e = <<>> THEN 0
               ELSE len_json_dumps(Head(e)) + SumElems(Tail(e))

SumFields(f) == IF f = <<>> THEN 0
                ELSE Len(Head(f).k) + 2 + 2 + len_json_dumps(Head(f).v)
                       + SumFields(Tail(f))

len_json_dumps(v) ==
    CASE v.t = "null" -> 4
      [] v.t = "bool" -> IF v.b THEN 4 ELSE 5
      [] v.t = "int"  -> IntLen(v.i)
      [] v.t = "str"  -> 2 + EscLen(v.s)
      [] v.t = "list" -> 2 + SumElems(v.e) + 2 * Max(0, Len(v.e) - 1)
      [] v.t = "dict" -> 2 + SumFields(v.f) + 2 * Max(0, Len(v.f) - 1)

----------------------------------------------------------------------------
(* truncate_preserving_early_entries *)

MAX_TOOL_OUTPUT_LENGTH == 40000

\* {"type": "text", "text": "... (truncated)"}
SENTINEL == JDict(<<KV("type", JStr(TEXT)), KV("text", JStr(TRUNCATED_MARK))>>)

\* what a call produced: a returned value, or the exception it raised
Returned(v) == [exc |-> "none", val |-> v]
Raised(e) == [exc |-> e, val |-> JNull]

Content(items) == JDict(<<KV("content", JList(items))>>)

\* lines 46-52: the first surviving item alone exceeds the budget
truncate_first_item(item, max_length_) ==
    LET base_size == len_json_dumps(Content(<<>>))
        available_space ==
            max_length_ - base_size - len_json_dumps(Without(item, "text")) - 20
        text == Get(item, "text")
    IN  IF text.t # "str"
        THEN Raised("TypeError")   \* item["text"][:n] + "..." on a non-string
        ELSE Returned(Content(<<WithKey(item, "text",
                 JStr(Concat(SliceTo(text.s, available_space), TRUNCATED_MARK)))>>))

RECURSIVE truncate_loop_no_break(_, _, _, _)
\* truncate_loop with the break of line 55 left out after the sentinel
truncate_loop_no_break(items, i, out, max_length_) ==
    IF i > Len(items) THEN Returned(Content(out))
    ELSE LET item == items[i] IN
         IF ~IsDict(item) \/ ~HasKey(item, "text")
         THEN truncate_loop_no_break(items, i + 1, out, max_length_)
         ELSE LET next_size == len_json_dumps(JList(Append(out, item))) IN
              IF next_size <= max_length_
              THEN truncate_loop_no_break(items, i + 1, Append(out, item), max_length_)
              ELSE IF out = <<>>
                   THEN truncate_first_item(item, max_length_)
                   ELSE truncate_loop_no_break(items, i + 1, Append(out, SENTINEL),
                                               max_length_)

RECURSIVE truncate_loop_base_added(_, _, _, _)
\* truncate_loop with base_size added to next_size on line 41
truncate_loop_base_added(items, i, out, max_length_) ==
    IF i > Len(items) THEN Returned(Content(out))
    ELSE LET item == items[i] IN
         IF ~IsDict(item) \/ ~HasKey(item, "text")
         THEN truncate_loop_base_added(items, i + 1, out, max_length_)
         ELSE LET next_size == len_json_dumps(Content(<<>>))
                                 + len_json_dumps(JList(Append(out, item))) IN
              IF next_size <= max_length_
              THEN truncate_loop_base_added(items, i + 1, Append(out, item), max_length_)
              ELSE IF out = <<>>
                   THEN truncate_first_item(item, max_length_)
                   ELSE Returned(Content(Append(out, SENTINEL)))

RECURSIVE truncate_loop_item_size(_, _, _, _)
\* truncate_loop with next_size = len(item_json), the item alone, on line 41
truncate_loop_item_size(items, i, out, max_length_) ==
    IF i > Len(items) THEN Returned(Content(out))
    ELSE LET item == items[i] IN
         IF ~IsDict(item) \/ ~HasKey(item, "text")
         THEN truncate_loop_item_size(items, i + 1, out, max_length_)
         ELSE LET next_size == len_json_dumps(item) IN
              IF next_size <= max_length_
              THEN truncate_loop_item_size(items, i + 1, Append(out, item), max_length_)
              ELSE IF out = <<>>
                   THEN truncate_first_item(item, max_length_)
                   ELSE Returned(Content(Append(out, SENTINEL)))

RECURSIVE truncate_loop(_, _, _, _)
\* lines 36-57: the loop over data["content"], from item i on, and the return
truncate_loop(items, i, out, max_length_) ==
    IF i > Len(items) THEN Returned(Content(out))
    ELSE LET item == items[i] IN
         IF ~IsDict(item) \/ ~HasKey(item, "text")
         THEN truncate_loop(items, i + 1, out, max_length_)
         ELSE LET next_size == len_json_dumps(JList(Append(out, item))) IN
              IF next_size <= max_length_
              THEN truncate_loop(items, i + 1, Append(out, item), max_length_)
              ELSE IF out = <<>>
                   THEN truncate_first_item(item, max_length_)
                   ELSE Returned(Content(Append(out, SENTINEL)))

truncate_preserving_early_entries(d, max_length_) ==
    IF ~IsDict(d) \/ ~HasKey(d, "content") \/ ~IsList(Get(d, "content"))
    THEN Returned(Content(<<SENTINEL>>))
    ELSE truncate_loop(Get(d, "content").e, 1, <<>>, max_length_)

----------------------------------------------------------------------------
(* Exceptions. A raised exception carries str(e) in val when the program *)
(* gives it one; the wording of a library's message is LIBRARY_MESSAGE.  *)

RaisedWith(e, msg) == [exc |-> e, val |-> JStr(msg)]

\* str(e)
ExcStr(r) == IF r.val.t = "str" THEN r.val.s ELSE LIBRARY_MESSAGE

\* httpx.RequestError and its subclasses
RequestErrors == {"ConnectError", "ReadTimeout"}

\* the subclasses of Exception that the modelled code can raise
Exceptions == RequestErrors \cup
    {"HTTPStatusError", "JSONDecodeError", "AttributeError", "TypeError",
     "KeyError", "ValidationError"}

\* str(v) as an f-string formats a value decoded from JSON
PyStr(v) ==
    CASE v.t = "str"  -> v.s
      [] v.t = "null" -> PY_NONE
      [] v.t = "bool" -> IF v.b THEN PY_TRUE ELSE PY_FALSE
      [] v.t = "int"  -> IF v.i < 0 THEN Concat(<<Run(45, 1)>>, IntText(0 - v.i))
                         ELSE IntText(v.i)

\* d.get(k, default) on a dict d
DictGet(d, k, default) == IF HasKey(d, k) THEN Get(d, k) ELSE default

----------------------------------------------------------------------------
(* forward_to_nlweb *)

\* a ForwardOutcome as the code returns it: {"error": message} or
\* {"response": value}
Err(message) == JDict(<<KV("error", message)>>)
Ok(value) == JDict(<<KV("response", value)>>)

\* "error" in result, for a decoded body of any JSON type (line 85)
error_in(body) ==
    CASE body.t = "dict" -> Returned(JBool(HasKey(body, "error")))
      [] body.t = "list" -> Returned(JBool(\E i \in 1..Len(body.e) : body.e[i] = JStr(ERROR)))
      [] body.t = "str"  -> Returned(JBool(Contains(body.s, ERROR)))
      [] OTHER           -> Raised("TypeError")       \* not iterable

\* lines 83-89: the decoded body of a 2xx reply
forward_decode(body) ==
    LET has == error_in(body) IN
    IF has.exc # "none" THEN has
    ELSE IF has.val.b
    THEN IF body.t # "dict" THEN Raised("TypeError")  \* result["error"] on a list or str
         ELSE IF Get(body, "error").t # "dict"
              THEN Raised("AttributeError")           \* .get on a non-dict error
              ELSE Returned(Err(DictGet(Get(body, "error"), "message",
                                        JStr(UNKNOWN_MCP_ERROR))))
    ELSE IF body.t # "dict" THEN Raised("AttributeError")   \* result.get on a list or str
         ELSE Returned(Ok(DictGet(body, "result", JNull)))

\* lines 62-89: the body of the try, for one behaviour of the backend
forward_try(b) ==
    CASE b.kind = "network"    -> RaisedWith("ConnectError", b.text)
      [] b.kind = "timeout"    -> RaisedWith("ReadTimeout", b.text)
      [] b.kind = "status"     -> Raised("HTTPStatusError")
      [] b.kind = "unparsable" -> Raised("JSONDecodeError")
      [] b.kind = "json"       -> forward_decode(b.json)

\* forward_to_nlweb with line 89 returning on an error field too
forward_result_first(b) ==
    LET r == IF b.kind = "json" /\ b.json.t = "dict" /\ HasKey(b.json, "result")
             THEN Returned(Ok(Get(b.json, "result")))
             ELSE forward_try(b) IN
    IF r.exc = "none" THEN r
    ELSE IF r.exc = "HTTPStatusError"
    THEN Returned(Err(JStr(Concat(HTTP_ERROR, Concat(IntText(b.status),
                                  Concat(DASH, b.text))))))
    ELSE IF r.exc \in RequestErrors
    THEN Returned(Err(JStr(Concat(REQUEST_FAILED, ExcStr(r)))))
    ELSE IF r.exc \in Exceptions
    THEN Returned(Err(JStr(Concat(UNEXPECTED_ERROR, ExcStr(r)))))
    ELSE r

\* lines 59-99, from the completion of the POST on
forward_to_nlweb(b) ==
    LET r == forward_try(b) IN
    IF r.exc = "none" THEN r
    ELSE IF r.exc = "HTTPStatusError"
    THEN Returned(Err(JStr(Concat(HTTP_ERROR, Concat(IntText(b.status),
                                  Concat(DASH, b.text))))))
    ELSE IF r.exc \in RequestErrors
    THEN Returned(Err(JStr(Concat(REQUEST_FAILED, ExcStr(r)))))
    ELSE IF r.exc \in Exceptions
    THEN Returned(Err(JStr(Concat(UNEXPECTED_ERROR, ExcStr(r)))))
    ELSE r

----------------------------------------------------------------------------
(* len(json.dumps(v, indent=2)) *)

RECURSIVE len_json_dumps_indent(_, _)
RECURSIVE SumElemsIndent(_, _)
RECURSIVE SumFieldsIndent(_, _)

\* each element on a line of its own: newline, indentation, the element
SumElemsIndent(e, level) ==
    IF e = <<>> THEN 0
    ELSE 1 + 2 * level + len_json_dumps_indent(Head(e), level)
           + SumElemsIndent(Tail(e), level)

SumFieldsIndent(f, level) ==
    IF f = <<>> THEN 0
    ELSE 1 + 2 * level + Len(Head(f).k) + 2 + 2
           + len_json_dumps_indent(Head(f).v, level) + SumFieldsIndent(Tail(f), level)

len_json_dumps_indent(v, level) ==
    CASE v.t = "list" /\ v.e # <<>> ->
             1 + SumElemsIndent(v.e, level + 1) + (Len(v.e) - 1) + 1 + 2 * level + 1
      [] v.t = "dict" /\ v.f # <<>> ->
             1 + SumFieldsIndent(v.f, level + 1) + (Len(v.f) - 1) + 1 + 2 * level + 1
      [] OTHER -> len_json_dumps(v)

\* the str json.dumps(v, indent=2), kept as the value it serializes
JDumps(v) == [t |-> "dumps", v |-> v]

\* len(s) of a str held in a response
StrLength(x) == IF x.t = "dumps" THEN len_json_dumps_indent(x.v, 0) ELSE TextLen(x.s)

----------------------------------------------------------------------------
(* The handlers registered in serve *)

\* TextContent(type="text", text=...)
TextContent(text) == JDict(<<KV("type", JStr(TEXT)), KV("text", text)>>)

\* the Tool of lines 120-133 and 148-161
FALLBACK_TOOL ==
    JDict(<<KV("name", JStr(ASK_NLW)),
            KV("description", JStr(FALLBACK_DESCRIPTION)),
            KV("inputSchema", JDict(<<
                KV("type", JStr(OBJECT)),
                KV("properties", JDict(<<KV("query", JDict(<<
                    KV("type", JStr(STRING_TYPE)),
                    KV("description", JStr(QUERY_SCHEMA_DESCRIPTION))>>))>>)),
                KV("required", JList(<<JStr(QUERY)>>))>>))>>)

\* PromptArgument(name="query", description="query string in english", required=True)
QUERY_ARGUMENT ==
    JDict(<<KV("name", JStr(QUERY)), KV("description", JStr(QUERY_DESCRIPTION)),
            KV("required", JBool(TRUE))>>)

\* the Prompt of lines 172-182 and 203-213
FALLBACK_PROMPT ==
    JDict(<<KV("name", JStr(ASK_NLW)),
            KV("description", JStr(FALLBACK_DESCRIPTION)),
            KV("arguments", JList(<<QUERY_ARGUMENT>>))>>)

\* the elements `for x in v` visits, or the TypeError of a value that is not
\* iterable; a dict yields its keys and a str its characters, all of them strs
iterate(v) ==
    CASE v.t = "list" -> Returned(JList(v.e))
      [] v.t = "dict" -> Returned(JList([i \in 1..Len(v.f) |-> JStr(<<>>)]))
      [] v.t = "str"  -> Returned(JList([i \in 1..TextLen(v.s) |->
                                            JStr(Take(Drop(v.s, i - 1), 1))]))
      [] OTHER        -> Raised("TypeError")

\* Tool(name=tool["name"], description=tool["description"],
\*      inputSchema=tool["inputSchema"]), lines 139-143; the model validates
\* name: str, description: str | None, inputSchema: dict
make_tool(tool) ==
    IF tool.t # "dict" THEN Raised("TypeError")
    ELSE IF ~HasKey(tool, "name") \/ ~HasKey(tool, "description")
              \/ ~HasKey(tool, "inputSchema")
    THEN Raised("KeyError")
    ELSE IF \/ Get(tool, "name").t # "str"
            \/ Get(tool, "description").t \notin {"str", "null"}
            \/ Get(tool, "inputSchema").t # "dict"
    THEN Raised("ValidationError")
    ELSE Returned(JDict(<<KV("name", Get(tool, "name")),
                          KV("description", Get(tool, "description")),
                          KV("inputSchema", Get(tool, "inputSchema"))>>))

\* Prompt(name=prompt["id"], description=prompt["description"],
\*        arguments=[PromptArgument(...)]), lines 188-198
make_prompt(prompt) ==
    IF prompt.t # "dict" THEN Raised("TypeError")
    ELSE IF ~HasKey(prompt, "id") \/ ~HasKey(prompt, "description")
    THEN Raised("KeyError")
    ELSE IF \/ Get(prompt, "id").t # "str"
            \/ Get(prompt, "description").t \notin {"str", "null"}
    THEN Raised("ValidationError")
    ELSE Returned(JDict(<<KV("name", Get(prompt, "id")),
                          KV("description", Get(prompt, "description")),
                          KV("arguments", JList(<<QUERY_ARGUMENT>>))>>))

RECURSIVE map_records(_, _)
\* the list comprehension of lines 139-143 (kind "tool") and 188-198 (kind
\* "prompt"): the first record that raises ends it
map_records(kind, records) ==
    IF records = <<>> THEN Returned(JList(<<>>))
    ELSE LET first == IF kind = "tool" THEN make_tool(Head(records))
                      ELSE make_prompt(Head(records)) IN
         IF first.exc # "none" THEN first
         ELSE LET rest == map_records(kind, Tail(records)) IN
              IF rest.exc # "none" THEN rest
              ELSE Returned(JList(<<first.val>> \o rest.val.e))

\* lines 137-143 and 186-198: the body of the try
listing_try(kind, key, o) ==
    LET resp == DictGet(o, "response", JDict(<<>>)) IN
    IF resp.t # "dict" THEN Raised("AttributeError")     \* .get on None, list, str
    ELSE LET records == iterate(DictGet(resp, key, JList(<<>>))) IN
         IF records.exc # "none" THEN records
         ELSE map_records(kind, records.val.e)

\* lines 115-162 and 167-214, from the return of forward_to_nlweb on
listing(kind, key, fallback, out) ==
    IF out.exc # "none" THEN out            \* forward_to_nlweb raised
    ELSE IF HasKey(out.val, "error") THEN Returned(JList(<<fallback>>))
    ELSE LET r == listing_try(kind, key, out.val) IN
         IF r.exc \in {"KeyError", "TypeError"} THEN Returned(JList(<<fallback>>))
         ELSE r

list_tools(out) == listing("tool", "tools", FALLBACK_TOOL, out)

list_prompts(out) == listing("prompt", "prompts", FALLBACK_PROMPT, out)

\* lines 225-234: the body of the try
call_tool_try(o, max_length_) ==
    LET response_data == DictGet(o, "response", JDict(<<>>)) IN
    IF response_data.t \in {"dict", "list"}
    THEN LET truncated == truncate_preserving_early_entries(response_data, max_length_) IN
         IF truncated.exc # "none" THEN truncated
         ELSE Returned(JList(<<TextContent(JDumps(truncated.val))>>))
    ELSE Returned(JList(<<TextContent(JDumps(response_data))>>))

\* lines 219-237, from the return of forward_to_nlweb on
call_tool(out) ==
    IF out.exc # "none" THEN out
    ELSE IF HasKey(out.val, "error")
    THEN Returned(JList(<<TextContent(
             JStr(Concat(ERROR_PREFIX, PyStr(Get(out.val, "error")))))>>))
    ELSE LET r == call_tool_try(out.val, MAX_TOOL_OUTPUT_LENGTH) IN
         IF r.exc \in Exceptions
         THEN Returned(JList(<<TextContent(
                  JStr(Concat(ERROR_PROCESSING_RESPONSE, ExcStr(r))))>>))
         ELSE r

\* lines 242-247: the argument map get_prompt forwards
prompt_arguments(name, arguments) ==
    LET given == IF arguments.t = "null" \/ arguments = JDict(<<>>)
                 THEN JDict(<<>>) ELSE arguments IN
    IF ~HasKey(given, "prompt_id") THEN WithKey(given, "prompt_id", JStr(name))
    ELSE given

\* GetPromptResult(description=..., messages=[PromptMessage(role="user",
\*     content=TextContent(type="text", text=...))])
GetPromptResult(description, text) ==
    JDict(<<KV("description", JStr(description)),
            KV("messages", JList(<<JDict(<<KV("role", JStr(USER)),
                                           KV("content", TextContent(JStr(text)))>>)>>))>>)

\* lines 263-275: the body of the try
get_prompt_try(name, o) ==
    LET prompt_data == DictGet(o, "response", JDict(<<>>)) IN
    IF prompt_data.t # "dict" THEN Raised("AttributeError")
    ELSE LET prompt_text == DictGet(prompt_data, "prompt_text",
                                    JStr(Concat(PROMPT_FOR, name)))
             shown == DictGet(prompt_data, "name", JStr(name))
         IN  IF prompt_text.t # "str" THEN Raised("ValidationError")
             ELSE Returned(GetPromptResult(Concat(PROMPT_COLON, PyStr(shown)),
                                           prompt_text.s))

\* get_prompt with line 253 formatting the name in place of
\* arguments.get('prompt_id', name)
get_prompt_describes_name(name, arguments, out) ==
    IF out.exc # "none" THEN out
    ELSE IF HasKey(out.val, "error")
    THEN Returned(GetPromptResult(
             Concat(FAILED_TO_GET_PROMPT, name),
             Concat(ERROR_PREFIX, PyStr(Get(out.val, "error")))))
    ELSE LET r == get_prompt_try(name, out.val) IN
         IF r.exc \in Exceptions
         THEN Returned(GetPromptResult(Concat(ERROR_GETTING_PROMPT, name),
                                       Concat(ERROR_PREFIX, ExcStr(r))))
         ELSE r

\* lines 249-286, from the return of forward_to_nlweb on
get_prompt(name, arguments, out) ==
    IF out.exc # "none" THEN out
    ELSE IF HasKey(out.val, "error")
    THEN Returned(GetPromptResult(
             Concat(FAILED_TO_GET_PROMPT,
                    PyStr(DictGet(prompt_arguments(name, arguments), "prompt_id",
                                  JStr(name)))),
             Concat(ERROR_PREFIX, PyStr(Get(out.val, "error")))))
    ELSE LET r == get_prompt_try(name, out.val) IN
         IF r.exc \in Exceptions
         THEN Returned(GetPromptResult(Concat(ERROR_GETTING_PROMPT, name),
                                       Concat(ERROR_PREFIX, ExcStr(r))))
         ELSE r

----------------------------------------------------------------------------
(* The truncator applied to bounded inputs *)

MaxItems == 3      \* content items of an enumerated response
MaxBudget == 100   \* enumerated budgets are 0..MaxBudget, and the program's
MaxTextLen == 30   \* length of the longest enumerated text

A(n) == IF n = 0 THEN <<>> ELSE <<Run(97, n)>>   \* "a" * n
TYPE_TEXT == KV("type", JStr(TEXT))

\* {"type": "text", "text": s}
TextItem(s) == JDict(<<TYPE_TEXT, KV("text", JStr(s))>>)
\* {"type": "image"}: an item with no text payload
ImageItem == JDict(<<KV("type", JStr(IMAGE))>>)

ItemPool ==
    { TextItem(<<>>),
      TextItem(A(MaxTextLen)),
      TextItem(<<Run(34, 2), Run(233, 1)>>),     \* two quotes and an e-acute
      ImageItem,
      JDict(<<TYPE_TEXT, KV("text", JInt(7))>>) }

SeqsUpTo(S, n) == UNION { [1..m -> S] : m \in 0..n }

\* the scenario of five items of sizes [10000, 10000, 10000, 10000, 20000]:
\* the size of an item read as its serialized length (28 characters around
\* the text), and as the length of its text
ScenarioSizes == <<10000, 10000, 10000, 10000, 20000>>
ItemOverhead == len_json_dumps(TextItem(<<>>))
ScenarioBySerializedSize ==
    Content([i \in 1..5 |-> TextItem(A(ScenarioSizes[i] - ItemOverhead))])
ScenarioByTextLength ==
    Content([i \in 1..5 |-> TextItem(A(ScenarioSizes[i]))])
\* and as what the item adds to the serialized list, its ", " included
ScenarioByContribution ==
    Content([i \in 1..5 |-> TextItem(A(ScenarioSizes[i] - ItemOverhead - 2))])
Scenarios == {ScenarioBySerializedSize, ScenarioByTextLength}

SpecialResponses ==
    Scenarios \cup
    { ScenarioByContribution, \* one item, larger than the program's budget
      Content(<<TextItem(A(MAX_TOOL_OUTPUT_LENGTH + MaxTextLen))>>),
      \* one item whose serialized list is exactly the program's budget
      Content(<<TextItem(A(MAX_TOOL_OUTPUT_LENGTH - ItemOverhead - 2))>>),
      \* not of the expected shape
      JNull, JList(<<TextItem(<<>>)>>), JDict(<<>>),
      JDict(<<KV("content", JStr(A(3)))>>),
      \* a further top-level key
      JDict(<<KV("content", JList(<<TextItem(A(3))>>)), KV("isError", JBool(FALSE))>>),
      \* an item that is no object, an item with the text key alone
      Content(<<JStr(A(3)), TextItem(<<>>)>>),
      Content(<<JDict(<<KV("text", JStr(A(MaxTextLen)))>>)>>) }

Responses == { Content(items) : items \in SeqsUpTo(ItemPool, MaxItems) }
                 \cup SpecialResponses

Budgets == (0..MaxBudget) \cup {MAX_TOOL_OUTPUT_LENGTH}

----------------------------------------------------------------------------
(* The handlers against bounded backend behaviours *)

MaxRecords == 2   \* records of an enumerated tool or prompt listing

\* Spec follows one invocation at a time against every enumerated behaviour
\* of the backend; SpecConcurrent interleaves several invocations
Tasks == {1}

\* what the backend does with one POST: the connection fails, the call times
\* out, it answers a non-2xx status with a body text, a 2xx status with a
\* body that is not JSON, or a 2xx status with a JSON body
Behaviour(kind, status, text, json) ==
    [kind |-> kind, status |-> status, text |-> text, json |-> json]
JsonReply(body) == Behaviour("json", 200, <<>>, body)

LongText == A(MAX_TOOL_OUTPUT_LENGTH)

CommonBodies ==
    { JDict(<<>>),
      JDict(<<KV("jsonrpc", JStr(A(3))), KV("id", JInt(1))>>),
      JDict(<<KV("error", JDict(<<KV("message", JStr(A(3))), KV("code", JInt(7))>>))>>),
      JDict(<<KV("error", JDict(<<KV("message", JStr(LongText))>>))>>),
      JDict(<<KV("error", JDict(<<KV("message", JNull)>>))>>),
      JDict(<<KV("error", JDict(<<>>))>>),
      JDict(<<KV("error", JStr(A(3)))>>),
      JDict(<<KV("error", JNull)>>),
      JDict(<<KV("error", JDict(<<KV("message", JStr(A(3)))>>)),
              KV("result", JDict(<<>>))>>),
      JDict(<<KV("result", JNull)>>),
      JDict(<<KV("result", JDict(<<>>))>>),
      JDict(<<KV("result", JList(<<>>))>>),
      JDict(<<KV("result", JStr(A(3)))>>),
      JDict(<<KV("result", JStr(LongText))>>),
      JDict(<<KV("result", JInt(7))>>),
      JList(<<>>), JList(<<JStr(ERROR)>>), JStr(A(3)), JStr(ERROR), JInt(7), JNull }

CommonBehaviours ==
    { Behaviour("network", 0, CONNECT_FAILED, JNull),
      Behaviour("timeout", 0, <<>>, JNull),
      Behaviour("status", 500, A(3), JNull),
      Behaviour("status", 404, LongText, JNull),
      Behaviour("unparsable", 200, NOT_JSON, JNull) }
    \cup { JsonReply(body) : body \in CommonBodies }

ResultReply(value) == JsonReply(JDict(<<KV("result", value)>>))

SCHEMA == JDict(<<KV("type", JStr(OBJECT))>>)

\* records of a tools listing: well formed, with a null description, without
\* inputSchema, with a number for a name, and one that is no object
ToolRecords ==
    { JDict(<<KV("name", JStr(SEARCH)), KV("description", JStr(A(3))),
              KV("inputSchema", SCHEMA)>>),
      JDict(<<KV("name", JStr(FAQ)), KV("description", JNull),
              KV("inputSchema", SCHEMA)>>),
      JDict(<<KV("name", JStr(SEARCH)), KV("description", JStr(A(3)))>>),
      JDict(<<KV("name", JInt(7)), KV("description", JStr(A(3))),
              KV("inputSchema", SCHEMA)>>),
      JStr(SEARCH) }

\* records of a prompts listing: well formed, without description, with a
\* number for an id, and one that is no object
PromptRecords ==
    { JDict(<<KV("id", JStr(FAQ)), KV("description", JStr(A(3)))>>),
      JDict(<<KV("id", JStr(FAQ))>>),
      JDict(<<KV("id", JInt(7)), KV("description", JStr(A(3)))>>),
      JNull }

\* a listing that is no list: a number, null, a str, an object
NotAListing == { JInt(7), JNull, JStr(A(2)), JStr(<<>>), JDict(<<>>),
                  JDict(<<KV("name", JStr(FAQ))>>) }

ListingBehaviours(key, records) ==
    { ResultReply(JDict(<<KV(key, JList(l))>>)) : l \in SeqsUpTo(records, MaxRecords) }
    \cup { ResultReply(JDict(<<KV(key, v)>>)) : v \in NotAListing }

\* results of a tool call
ToolResults ==
    { Content(<<TextItem(A(3))>>),
      Content(<<TextItem(A(3)), ImageItem, TextItem(<<Run(34, 2), Run(233, 1)>>)>>),
      JDict(<<KV("content", JList(<<TextItem(A(3))>>)), KV("isError", JBool(FALSE))>>),
      JDict(<<KV("answer", JStr(A(3)))>>),
      JList(<<TextItem(A(3))>>),
      ScenarioBySerializedSize,
      ScenarioByContribution,
      Content(<<TextItem(A(MAX_TOOL_OUTPUT_LENGTH + MaxTextLen))>>),
      Content(<<TextItem(A(MAX_TOOL_OUTPUT_LENGTH - ItemOverhead - 2))>>),
      Content(<<JDict(<<KV("type", JStr(LongText)), KV("text", JInt(7))>>)>>) }

\* results of a prompt resolution
PromptResults ==
    { JDict(<<KV("name", JStr(FAQ)), KV("prompt_text", JStr(A(3)))>>),
      JDict(<<KV("prompt_text", JStr(A(3)))>>),
      JDict(<<KV("name", JInt(7))>>),
      JDict(<<KV("name", JStr(FAQ)), KV("prompt_text", JInt(7))>>) }

Behaviours(handler) ==
    CommonBehaviours \cup
    CASE handler = "list_tools"   -> ListingBehaviours("tools", ToolRecords)
      [] handler = "list_prompts" -> ListingBehaviours("prompts", PromptRecords)
      [] handler = "call_tool"    -> { ResultReply(v) : v \in ToolResults }
      [] handler = "get_prompt"   -> { ResultReply(v) : v \in PromptResults }

\* the names and argument maps the local caller passes
ToolNames == {ASK_NLW}
ToolArguments == { JDict(<<KV("query", JStr(A(3)))>>) }
PromptNames == {FAQ}
PromptArguments ==
    { JNull, JDict(<<>>), JDict(<<KV("query", JStr(A(3)))>>),
      JDict(<<KV("prompt_id", JStr(SEARCH))>>) }

Request(handler, name, arguments) ==
    [handler |-> handler, name |-> name, arguments |-> arguments]
Posted(method, params) == [method |-> method, params |-> params]

NoResult == Raised("pending")
NoRequest == Request("none", <<>>, JNull)
NoPost == Posted("none", JNull)
NoReply == Behaviour("none", 0, <<>>, JNull)

TruncatorIdle ==
    /\ data = JNull
    /\ max_length = MAX_TOOL_OUTPUT_LENGTH
    /\ result = NoResult
    /\ tpc = "idle"

\* serve has registered its handlers and no invocation in T has started
HandlersIdleFor(T) ==
    /\ pc = [t \in T |-> "idle"]
    /\ req = [t \in T |-> NoRequest]
    /\ post = [t \in T |-> NoPost]
    /\ posts = [t \in T |-> <<>>]
    /\ reply = [t \in T |-> NoReply]
    /\ outcome = [t \in T |-> NoResult]
    /\ response = [t \in T |-> NoResult]
    /\ alive = TRUE

HandlersIdle == HandlersIdleFor(Tasks)

----------------------------------------------------------------------------
(* get_embedding_model and its callers *)

NumCallers == 2   \* threads that call get_embedding_model
MaxCalls == 3     \* calls they make in all

Callers == 1..NumCallers

\* an Optional[str]: <<>> for None, <<s>> for the str s
Overrides == { <<>>, <<"">>, <<"custom-model">> }
\* the model name of the sentence_transformers provider in CONFIG, "" when
\* there is no provider or it names no model
Configured == { "", "configured-model" }

NoModel == [id |-> 0, name |-> ""]           \* None
NoValue == [exc |-> "pending", val |-> NoModel]

\* lines 26-33
get_model_name(c) == IF c # "" THEN c ELSE "all-MiniLM-L6-v2"

\* line 43: model_override or get_model_name()
model_name(override, c) ==
    IF override # <<>> /\ override[1] # "" THEN override[1] ELSE get_model_name(c)

\* the SentenceTransformer instances constructed, in order
Constructed == SelectSeq(loads, LAMBDA l : l.ok)

\* the module is imported (lines 23-24) and no caller has called
CallersIdle ==
    /\ embedding_model = NoModel
    /\ model_lock = 0
    /\ epc = [c \in Callers |-> "idle"]
    /\ model_override = [c \in Callers |-> <<>>]
    /\ got = [c \in Callers |-> NoValue]
    /\ calls = 0
    /\ loads = <<>>

EmbeddingIdle == config = "" /\ CallersIdle

----------------------------------------------------------------------------
(* Specification of the truncator alone *)

InitTruncate ==
    /\ data \in Responses
    /\ max_length \in Budgets
    /\ result = NoResult
    /\ tpc = "call"
    /\ HandlersIdle
    /\ EmbeddingIdle

\* result = truncate_preserving_early_entries(data, max_length)
TruncateCall ==
    /\ tpc = "call"
    /\ result' = truncate_preserving_early_entries(data, max_length)
    /\ tpc' = "done"
    /\ UNCHANGED <<data, max_length>>
    /\ UNCHANGED hvars
    /\ UNCHANGED evars

NextTruncate == TruncateCall

SpecTruncate == InitTruncate /\ [][NextTruncate]_vars

----------------------------------------------------------------------------
(* Specification of the bridge: serve and its handlers *)

Init == TruncatorIdle /\ HandlersIdle /\ EmbeddingIdle

\* client.post issued twice for one call of forward_to_nlweb, as by a retry
client_post_retried(log, request) == Append(Append(log, request), request)

\* lines 73-79: forward_to_nlweb issues its one client.post; log holds the
\* POSTs of the invocation so far
client_post(log, request) == Append(log, request)

\* the handler builds its params and forward_to_nlweb its payload (lines
\* 64-69), and the POST of line 74 is issued: the invocation is suspended
Invoke(t, handler, name, arguments, method, params) ==
    /\ alive
    /\ pc[t] = "idle"
    /\ req' = [req EXCEPT ![t] = Request(handler, name, arguments)]
    /\ post' = [post EXCEPT ![t] = Posted(method, params)]
    /\ posts' = [posts EXCEPT ![t] = client_post(posts[t], Posted(method, params))]
    /\ pc' = [pc EXCEPT ![t] = "awaiting"]
    /\ UNCHANGED <<reply, outcome, response, alive>>
    /\ UNCHANGED tvars
    /\ UNCHANGED evars

\* line 115
InvokeListTools(t) ==
    /\ pc[t] = "idle"
    /\ Invoke(t, "list_tools", <<>>, JNull, "tools/list", JDict(<<>>))

\* line 167
InvokeListPrompts(t) ==
    /\ pc[t] = "idle"
    /\ Invoke(t, "list_prompts", <<>>, JNull, "tools/list_prompts", JDict(<<>>))

\* line 219
InvokeCallTool(t) ==
    /\ pc[t] = "idle"
    /\ \E name \in ToolNames, arguments \in ToolArguments :
        Invoke(t, "call_tool", name, arguments, "tools/call",
               JDict(<<KV("name", JStr(name)), KV("arguments", arguments)>>))

\* lines 242-249
InvokeGetPrompt(t) ==
    /\ pc[t] = "idle"
    /\ \E name \in PromptNames, arguments \in PromptArguments :
        Invoke(t, "get_prompt", name, arguments, "tools/get_prompt",
               JDict(<<KV("name", JStr(name)),
                       KV("arguments", prompt_arguments(name, arguments))>>))

\* `result = await forward_to_nlweb(...)` binding one name shared by all
\* invocations in place of a local of the handler's frame
bind_shared_result(results, t, v) == [u \in DOMAIN results |-> v]

\* `result = await forward_to_nlweb(...)` (lines 115, 167, 219, 249): result
\* is a local of the frame of invocation t
bind_result(results, t, v) == [results EXCEPT ![t] = v]

\* the POST of invocation t completes with behaviour b and forward_to_nlweb
\* runs to its return (lines 74-99)
Reply(t, b) ==
    /\ alive
    /\ pc[t] = "awaiting"
    /\ reply' = [reply EXCEPT ![t] = b]
    /\ outcome' = bind_result(outcome, t, forward_to_nlweb(b))
    /\ pc' = [pc EXCEPT ![t] = "forwarded"]
    /\ UNCHANGED <<req, post, posts, response, alive>>
    /\ UNCHANGED tvars
    /\ UNCHANGED evars

\* the backend answers in one of its behaviours
BackendReplies(t) ==
    /\ pc[t] = "awaiting"
    /\ \E b \in Behaviours(req[t].handler) : Reply(t, b)

\* the handler runs from the return of forward_to_nlweb to its own return;
\* an exception it raises leaves server.run, which serve calls with
\* raise_exceptions=True (line 291)
Complete(t, handler, produced) ==
    /\ alive
    /\ pc[t] = "forwarded"
    /\ req[t].handler = handler
    /\ response' = [response EXCEPT ![t] = produced]
    /\ pc' = [pc EXCEPT ![t] = "done"]
    /\ alive' = (produced.exc = "none")
    /\ UNCHANGED <<req, post, posts, reply, outcome>>
    /\ UNCHANGED tvars
    /\ UNCHANGED evars

ListToolsReturns(t) ==
    /\ pc[t] = "forwarded"
    /\ Complete(t, "list_tools", list_tools(outcome[t]))

ListPromptsReturns(t) ==
    /\ pc[t] = "forwarded"
    /\ Complete(t, "list_prompts", list_prompts(outcome[t]))

CallToolReturns(t) ==
    /\ pc[t] = "forwarded"
    /\ Complete(t, "call_tool", call_tool(outcome[t]))

GetPromptReturns(t) ==
    /\ pc[t] = "forwarded"
    /\ Complete(t, "get_prompt",
                get_prompt(req[t].name, req[t].arguments, outcome[t]))

\* the transport has written the response; the slot takes the next request
Deliver(t) ==
    /\ alive
    /\ pc[t] = "done"
    /\ pc' = [pc EXCEPT ![t] = "idle"]
    /\ req' = [req EXCEPT ![t] = NoRequest]
    /\ post' = [post EXCEPT ![t] = NoPost]
    /\ posts' = [posts EXCEPT ![t] = <<>>]
    /\ reply' = [reply EXCEPT ![t] = NoReply]
    /\ outcome' = [outcome EXCEPT ![t] = NoResult]
    /\ response' = [response EXCEPT ![t] = NoResult]
    /\ UNCHANGED alive
    /\ UNCHANGED tvars
    /\ UNCHANGED evars

Next ==
    \E t \in Tasks :
        \/ InvokeListTools(t)
        \/ InvokeListPrompts(t)
        \/ InvokeCallTool(t)
        \/ InvokeGetPrompt(t)
        \/ BackendReplies(t)
        \/ ListToolsReturns(t)
        \/ ListPromptsReturns(t)
        \/ CallToolReturns(t)
        \/ GetPromptReturns(t)
        \/ Deliver(t)

Spec == Init /\ [][Next]_vars

----------------------------------------------------------------------------
(* Specification of concurrent invocations: server.run starts a task for  *)
(* each request, and several are suspended at the HTTP call at once       *)

NumInvocations == 2   \* invocations in progress at once

Invocations == 1..NumInvocations

\* behaviours of the backend that lead each handler down each of its paths:
\* Err, a body without result, and a result the handler shapes (truncated
\* first, for the tool call whose result exceeds the budget)
ConcurrentBehaviours(handler) ==
    { Behaviour("network", 0, CONNECT_FAILED, JNull),
      JsonReply(JDict(<<KV("error", JDict(<<KV("message", JStr(A(3)))>>))>>)),
      JsonReply(JDict(<<>>)) }
    \cup
    CASE handler = "list_tools" ->
             { ResultReply(JDict(<<KV("tools", JList(<<
                   JDict(<<KV("name", JStr(SEARCH)), KV("description", JStr(A(3))),
                           KV("inputSchema", SCHEMA)>>)>>))>>)) }
      [] handler = "list_prompts" ->
             { ResultReply(JDict(<<KV("prompts", JList(<<
                   JDict(<<KV("id", JStr(FAQ)), KV("description", JStr(A(3)))>>)>>))>>)) }
      [] handler = "call_tool" ->
             { ResultReply(Content(<<TextItem(A(3))>>)),
               ResultReply(ScenarioBySerializedSize) }
      [] handler = "get_prompt" ->
             { ResultReply(JDict(<<KV("name", JStr(FAQ)),
                                   KV("prompt_text", JStr(A(3)))>>)) }

InitConcurrent == TruncatorIdle /\ HandlersIdleFor(Invocations) /\ EmbeddingIdle

BackendRepliesConcurrently(t) ==
    /\ pc[t] = "awaiting"
    /\ \E b \in ConcurrentBehaviours(req[t].handler) : Reply(t, b)

NextConcurrent ==
    \E t \in Invocations :
        \/ InvokeListTools(t)
        \/ InvokeListPrompts(t)
        \/ InvokeCallTool(t)
        \/ InvokeGetPrompt(t)
        \/ BackendRepliesConcurrently(t)
        \/ ListToolsReturns(t)
        \/ ListPromptsReturns(t)
        \/ CallToolReturns(t)
        \/ GetPromptReturns(t)
        \/ Deliver(t)

SpecConcurrent == InitConcurrent /\ [][NextConcurrent]_vars

----------------------------------------------------------------------------
(* Specification of get_embedding_model called from several threads *)

InitEmbedding ==
    /\ TruncatorIdle
    /\ HandlersIdle
    /\ config \in Configured
    /\ CallersIdle

\* `with _model_lock` admitting a caller while another holds the lock
may_acquire_unlocked(lock) == TRUE

\* line 40: threading.Lock admits a caller when no caller holds it
may_acquire(lock) == lock = 0

\* a thread calls get_embedding_model(model_override), line 35
Call(c) ==
    /\ epc[c] \in {"idle", "returned", "raised"}
    /\ calls < MaxCalls
    /\ \E o \in Overrides : model_override' = [model_override EXCEPT ![c] = o]
    /\ calls' = calls + 1
    /\ got' = [got EXCEPT ![c] = NoValue]
    /\ epc' = [epc EXCEPT ![c] = "entering"]
    /\ UNCHANGED <<config, embedding_model, model_lock, loads>>
    /\ UNCHANGED <<tvars, hvars>>

\* line 40: the caller enters the with block, holding the lock
Acquire(c) ==
    /\ epc[c] = "entering"
    /\ may_acquire(model_lock)
    /\ model_lock' = c
    /\ epc' = [epc EXCEPT ![c] = "locked"]
    /\ UNCHANGED <<config, embedding_model, model_override, got, calls, loads>>
    /\ UNCHANGED <<tvars, hvars>>

\* line 41: if embedding_model is None
Check(c) ==
    /\ epc[c] = "locked"
    /\ epc' = [epc EXCEPT ![c] = IF embedding_model = NoModel THEN "loading"
                                 ELSE "leaving"]
    /\ UNCHANGED <<config, embedding_model, model_lock, model_override, got, calls, loads>>
    /\ UNCHANGED <<tvars, hvars>>

\* lines 43-46: SentenceTransformer(model_name) returns a new instance
LoadSucceeds(c) ==
    /\ epc[c] = "loading"
    /\ LET instance == [id |-> Len(loads) + 1,
                        name |-> model_name(model_override[c], config)] IN
       /\ embedding_model' = instance
       /\ loads' = Append(loads, [name |-> instance.name, ok |-> TRUE,
                                  instance |-> instance])
    /\ epc' = [epc EXCEPT ![c] = "leaving"]
    /\ UNCHANGED <<config, model_lock, model_override, got, calls>>
    /\ UNCHANGED <<tvars, hvars>>

\* lines 43-49: SentenceTransformer(model_name) raises; the exception is
\* logged and raised again, and leaving the with block releases the lock
LoadRaises(c) ==
    /\ epc[c] = "loading"
    /\ loads' = Append(loads, [name |-> model_name(model_override[c], config),
                               ok |-> FALSE, instance |-> NoModel])
    /\ model_lock' = 0
    /\ got' = [got EXCEPT ![c] = [exc |-> "Exception", val |-> NoModel]]
    /\ epc' = [epc EXCEPT ![c] = "raised"]
    /\ UNCHANGED <<config, embedding_model, model_override, calls>>
    /\ UNCHANGED <<tvars, hvars>>

\* the end of the with block of line 40: the lock is released
Leave(c) ==
    /\ epc[c] = "leaving"
    /\ model_lock' = 0
    /\ epc' = [epc EXCEPT ![c] = "returning"]
    /\ UNCHANGED <<config, embedding_model, model_override, got, calls, loads>>
    /\ UNCHANGED <<tvars, hvars>>

\* line 50: return embedding_model, read after the lock is released
Return(c) ==
    /\ epc[c] = "returning"
    /\ got' = [got EXCEPT ![c] = [exc |-> "none", val |-> embedding_model]]
    /\ epc' = [epc EXCEPT ![c] = "returned"]
    /\ UNCHANGED <<config, embedding_model, model_lock, model_override, calls, loads>>
    /\ UNCHANGED <<tvars, hvars>>

NextEmbedding ==
    \E c \in Callers :
        \/ Call(c)
        \/ Acquire(c)
        \/ Check(c)
        \/ LoadSucceeds(c)
        \/ LoadRaises(c)
        \/ Leave(c)
        \/ Return(c)

SpecEmbedding == InitEmbedding /\ [][NextEmbedding]_vars

----------------------------------------------------------------------------
(* Properties of the truncator *)

Done == tpc = "done"

\* data has the shape {content: sequence of items}
ShapeOK == IsDict(data) /\ HasKey(data, "content") /\ IsList(Get(data, "content"))

InItems == Get(data, "content").e
OutItems == Get(result.val, "content").e

TextBearing(item) == IsDict(item) /\ HasKey(item, "text")

RECURSIVE Surviving(_)
\* the items of a content list that carry a text payload, in order
Surviving(items) ==
    IF items = <<>> THEN <<>>
    ELSE IF TextBearing(Head(items)) THEN <<Head(items)>> \o Surviving(Tail(items))
    ELSE Surviving(Tail(items))

\* the serialized size of a content sequence
ListSize(items) == len_json_dumps(JList(items))

\* C1 (as claimed): for every response of shape {content: items} the
\* serialized size of the response the truncator returns is at most
\* maxLength, whether all items were kept, the first was cut or the sentinel
\* was appended. Stated for the program's own budget, which is large enough
\* for a response that fits to exist.
C1_ResultFitsBudget ==
    (Done /\ ShapeOK /\ result.exc = "none" /\ max_length = MAX_TOOL_OUTPUT_LENGTH)
        => len_json_dumps(result.val) <= max_length

\* C5 (as claimed): if items 1..k of the input fit within the budget and item
\* k+1 does not (k >= 1), the result is items 1..k unchanged, in order,
\* followed by exactly one sentinel, and nothing after.
C5_Original ==
    (Done /\ ShapeOK) =>
        \A k \in 1..(Len(InItems) - 1) :
            (/\ ListSize(SubSeq(InItems, 1, k)) <= max_length
             /\ ListSize(SubSeq(InItems, 1, k + 1)) > max_length)
                => result = Returned(Content(Append(SubSeq(InItems, 1, k), SENTINEL)))

\* C5 (amended): counting only the items that carry a text payload (the
\* others are dropped), if the serialized sequence of items 1..k is within the
\* budget and that of items 1..k+1 is not (k >= 1), the result is exactly
\* items 1..k unchanged, in order, followed by exactly one sentinel item; no
\* later item appears, even one small enough to fit.
C5_PrefixThenSentinel ==
    (Done /\ ShapeOK) =>
        LET S == Surviving(InItems) IN
        \A k \in 1..(Len(S) - 1) :
            (/\ ListSize(SubSeq(S, 1, k)) <= max_length
             /\ ListSize(SubSeq(S, 1, k + 1)) > max_length)
                => result = Returned(Content(Append(SubSeq(S, 1, k), SENTINEL)))

\* C5 witness: items 1..k fit, item k+1 does not, and item k+2 would have fit
\* in the space left.
C5_Witness ==
    /\ Done /\ ShapeOK
    /\ LET S == Surviving(InItems) IN
       \E k \in 1..(Len(S) - 2) :
           /\ ListSize(SubSeq(S, 1, k)) <= max_length
           /\ ListSize(SubSeq(S, 1, k + 1)) > max_length
           /\ ListSize(Append(SubSeq(S, 1, k), S[k + 2])) <= max_length
           /\ OutItems = Append(SubSeq(S, 1, k), SENTINEL)

\* the first item that carries text, alone, exceeds the budget; its text is a
\* string
FirstItemExceeds ==
    /\ ShapeOK
    /\ Surviving(InItems) # <<>>
    /\ Get(Surviving(InItems)[1], "text").t = "str"
    /\ ListSize(<<Surviving(InItems)[1]>>) > max_length

\* C6 (as claimed): if the first content item alone exceeds the budget, the
\* result has exactly one item, its text ends with "... (truncated)", and the
\* serialized size of the result is at most maxLength. Stated for the
\* program's own budget, where the space left for the text is positive.
C6_CutFirstItemFits ==
    (Done /\ FirstItemExceeds /\ max_length = MAX_TOOL_OUTPUT_LENGTH) =>
        /\ result.exc = "none"
        /\ Len(OutItems) = 1
        /\ EndsWith(Get(OutItems[1], "text").s, TRUNCATED_MARK)
        /\ len_json_dumps(result.val) <= max_length

\* C7 (as claimed): a response whose serialized size is at most the budget
\* comes back with its content list unchanged.
C7_Original ==
    (Done /\ ShapeOK /\ len_json_dumps(data) <= max_length)
        => (result.exc = "none" /\ OutItems = InItems)

\* C7 (amended): a response whose serialized size is at most the budget and
\* whose content items all are objects with a text field comes back with its
\* content list unchanged: same items, same order, none dropped, no sentinel.
C7_WithinBudgetUnchanged ==
    (/\ Done /\ ShapeOK
     /\ len_json_dumps(data) <= max_length
     /\ \A i \in 1..Len(InItems) : TextBearing(InItems[i]))
        => (result.exc = "none" /\ OutItems = InItems)

\* C7 witness: a response of two or more text items whose size is exactly the
\* budget, returned whole.
C7_Witness ==
    /\ Done /\ ShapeOK
    /\ len_json_dumps(data) = max_length
    /\ Len(InItems) >= 2
    /\ \A i \in 1..Len(InItems) : TextBearing(InItems[i])
    /\ OutItems = InItems

\* C8 (as claimed): with the budget 40,000, the five items of sizes
\* [10000, 10000, 10000, 10000, 20000] come back as items 1 to 4 followed by
\* the sentinel, within 40,000 characters.
C8_Original ==
    (Done /\ data \in Scenarios \cup {ScenarioByContribution}
          /\ max_length = MAX_TOOL_OUTPUT_LENGTH) =>
        /\ result = Returned(Content(Append(SubSeq(InItems, 1, 4), SENTINEL)))
        /\ len_json_dumps(result.val) <= MAX_TOOL_OUTPUT_LENGTH

\* C8 (amended): with the budget 40,000, five items whose serialized sizes
\* (or whose text lengths) are [10000, 10000, 10000, 10000, 20000] come back
\* as items 1 to 3 intact followed by the sentinel in place of items 4 and 5,
\* and the output is at most 40,000 characters.
C8_ScenarioKeepsThree ==
    (Done /\ data \in Scenarios /\ max_length = MAX_TOOL_OUTPUT_LENGTH) =>
        /\ result = Returned(Content(Append(SubSeq(InItems, 1, 3), SENTINEL)))
        /\ len_json_dumps(result.val) <= MAX_TOOL_OUTPUT_LENGTH

\* C8 witness: the scenario was truncated under the program's budget.
C8_Witness ==
    /\ Done
    /\ data = ScenarioBySerializedSize
    /\ max_length = MAX_TOOL_OUTPUT_LENGTH
    /\ Len(OutItems) = 4
    /\ OutItems[4] = SENTINEL

----------------------------------------------------------------------------
(* Properties of the forwarder and the handlers *)

Forwarded(t) == pc[t] \in {"forwarded", "done"}

\* the decoded body of a 2xx reply is an object
ObjectBody(t) == reply[t].kind = "json" /\ IsDict(reply[t].json)

IsErr(o) == o.exc = "none" /\ IsDict(o.val) /\ HasKey(o.val, "error")
IsOk(o) == o.exc = "none" /\ IsDict(o.val) /\ HasKey(o.val, "response")

\* C2 (as claimed): whatever the backend replies to a tool invocation, the
\* text of the content item call_tool returns is at most 40,000 characters.
C2_ToolTextWithinBudget ==
    \A t \in Tasks :
        (pc[t] = "done" /\ req[t].handler = "call_tool" /\ response[t].exc = "none")
            => \A i \in 1..Len(response[t].val.e) :
                   StrLength(Get(response[t].val.e[i], "text")) <= MAX_TOOL_OUTPUT_LENGTH

\* C3 (as claimed): every invocation of each of the four handlers returns a
\* response and raises nothing to the transport, whatever the backend did.
C3_HandlersNeverRaise ==
    \A t \in Tasks : pc[t] = "done" => response[t].exc = "none"

\* a record of a tools listing with its required fields, each of its type
WellFormedTool(r) ==
    /\ IsDict(r)
    /\ HasKey(r, "name") /\ HasKey(r, "description") /\ HasKey(r, "inputSchema")
    /\ Get(r, "name").t = "str"
    /\ Get(r, "description").t \in {"str", "null"}
    /\ Get(r, "inputSchema").t = "dict"

\* a record of a prompts listing with its required fields, each of its type
WellFormedPrompt(r) ==
    /\ IsDict(r)
    /\ HasKey(r, "id") /\ HasKey(r, "description")
    /\ Get(r, "id").t = "str"
    /\ Get(r, "description").t \in {"str", "null"}

\* the reply is a result whose listing under key is a list with a record
\* that is missing a field or has a field of the wrong type
MalformedListing(t, key) ==
    /\ ObjectBody(t)
    /\ ~HasKey(reply[t].json, "error") /\ HasKey(reply[t].json, "result")
    /\ LET res == Get(reply[t].json, "result") IN
       /\ IsDict(res) /\ HasKey(res, key) /\ IsList(Get(res, key))
       /\ \E i \in 1..Len(Get(res, key).e) :
              IF key = "tools" THEN ~WellFormedTool(Get(res, key).e[i])
              ELSE ~WellFormedPrompt(Get(res, key).e[i])

\* C4 (as claimed): list_tools and list_prompts return exactly the one
\* ask_nlw descriptor whenever the forward yields Err or a record of the
\* listing is missing a required field or has a field of the wrong type.
C4_FallbackListing ==
    \A t \in Tasks :
        /\ (pc[t] = "done" /\ req[t].handler = "list_tools"
              /\ (IsErr(outcome[t]) \/ MalformedListing(t, "tools")))
             => response[t] = Returned(JList(<<FALLBACK_TOOL>>))
        /\ (pc[t] = "done" /\ req[t].handler = "list_prompts"
              /\ (IsErr(outcome[t]) \/ MalformedListing(t, "prompts")))
             => response[t] = Returned(JList(<<FALLBACK_PROMPT>>))

\* C9: forward_to_nlweb raises nothing and returns, for every behaviour of
\* the backend, an outcome that is exactly one of Ok and Err: Err for a
\* network failure, a timeout, a non-2xx status and an unparsable body, Err
\* for a body with an error field even when it has a result field too, and Ok
\* for an object body that has a result field and no error field.
C9_OutcomeOkXorErr ==
    \A t \in Tasks :
        Forwarded(t) =>
            /\ outcome[t].exc = "none"
            /\ IsDict(outcome[t].val)
            /\ HasKey(outcome[t].val, "error") # HasKey(outcome[t].val, "response")
            /\ reply[t].kind # "json" => IsErr(outcome[t])
            /\ (ObjectBody(t) /\ HasKey(reply[t].json, "error")) => IsErr(outcome[t])
            /\ (ObjectBody(t) /\ ~HasKey(reply[t].json, "error")
                  /\ HasKey(reply[t].json, "result"))
                 => outcome[t] = Returned(Ok(Get(reply[t].json, "result")))

\* C9 witness: a body with both an error field and a result field was
\* forwarded as Err.
C9_Witness ==
    \E t \in Tasks :
        /\ pc[t] = "forwarded"
        /\ ObjectBody(t)
        /\ HasKey(reply[t].json, "error") /\ HasKey(reply[t].json, "result")
        /\ IsErr(outcome[t]) /\ ~IsOk(outcome[t])

\* C10 (as claimed): a 2xx reply whose JSON object has neither an error field
\* nor a result field is forwarded as Ok carrying an empty object, and the
\* handler returns what it returns for an empty result.
C10_MissingResultIsEmptyObject ==
    \A t \in Tasks :
        (Forwarded(t) /\ ObjectBody(t)
           /\ ~HasKey(reply[t].json, "error") /\ ~HasKey(reply[t].json, "result"))
            => /\ outcome[t] = Returned(Ok(JDict(<<>>)))
               /\ pc[t] = "done" =>
                    response[t] =
                        CASE req[t].handler = "list_tools" ->
                                 list_tools(Returned(Ok(JDict(<<>>))))
                          [] req[t].handler = "list_prompts" ->
                                 list_prompts(Returned(Ok(JDict(<<>>))))
                          [] req[t].handler = "call_tool" ->
                                 call_tool(Returned(Ok(JDict(<<>>))))
                          [] req[t].handler = "get_prompt" ->
                                 get_prompt(req[t].name, req[t].arguments,
                                            Returned(Ok(JDict(<<>>))))

\* the invocation t of get_prompt has returned after a forward that gave Err
PromptFailed(t) ==
    pc[t] = "done" /\ req[t].handler = "get_prompt" /\ IsErr(outcome[t])

\* the result has exactly one message, of role user, whose text contains
\* the error text of the forward
OneUserMessageWithError(t) ==
    /\ response[t].exc = "none"
    /\ IsDict(response[t].val)
    /\ HasKey(response[t].val, "description") /\ HasKey(response[t].val, "messages")
    /\ LET messages == Get(response[t].val, "messages") IN
       /\ IsList(messages) /\ Len(messages.e) = 1
       /\ Get(messages.e[1], "role") = JStr(USER)
       /\ Get(Get(messages.e[1], "content"), "type") = JStr(TEXT)
       /\ Contains(Get(Get(messages.e[1], "content"), "text").s,
                   PyStr(Get(outcome[t].val, "error")))

\* C11 (as claimed): when the forward yields Err, get_prompt returns, for
\* every name and argument map, a result whose description contains "Failed
\* to get prompt <name>" for the requested name, with exactly one message,
\* of role user, whose text contains the error text.
C11_Original ==
    \A t \in Tasks :
        PromptFailed(t) =>
            /\ OneUserMessageWithError(t)
            /\ Contains(Get(response[t].val, "description").s,
                        Concat(FAILED_TO_GET_PROMPT, req[t].name))

\* C11 (amended): when the forward yields Err, get_prompt returns a result
\* whose description is "Failed to get prompt " followed by the prompt_id the
\* argument map carries, and by the requested name when the map is absent,
\* empty or carries no prompt_id, with exactly one message, of role user,
\* whose text contains the error text.
C11_FailedPromptNamesId ==
    \A t \in Tasks :
        PromptFailed(t) =>
            /\ OneUserMessageWithError(t)
            /\ Get(response[t].val, "description") =
                  JStr(Concat(FAILED_TO_GET_PROMPT,
                              IF IsDict(req[t].arguments)
                                   /\ HasKey(req[t].arguments, "prompt_id")
                              THEN PyStr(Get(req[t].arguments, "prompt_id"))
                              ELSE req[t].name))

\* C11 witness: get_prompt has returned after an Err for an argument map that
\* carries a prompt_id other than the requested name.
C11_Witness ==
    \E t \in Tasks :
        /\ PromptFailed(t)
        /\ response[t].exc = "none"
        /\ IsDict(req[t].arguments) /\ HasKey(req[t].arguments, "prompt_id")
        /\ Get(req[t].arguments, "prompt_id") # JStr(req[t].name)

\* the method each handler forwards (lines 115, 167, 219, 249)
MethodOf(handler) ==
    CASE handler = "list_tools"   -> "tools/list"
      [] handler = "list_prompts" -> "tools/list_prompts"
      [] handler = "call_tool"    -> "tools/call"
      [] handler = "get_prompt"   -> "tools/get_prompt"

\* C12: every invocation of a handler issues exactly one HTTP POST, that of
\* its own method: one POST is out from the moment the invocation is
\* suspended at the call, and no second one is issued after the reply,
\* whatever the backend did (network failure, timeout, non-2xx status, error
\* body) and whatever the handler then returns, the fallback listing
\* included; an invocation that has not started has issued none.
C12_ExactlyOnePost ==
    \A t \in Tasks :
        /\ pc[t] = "idle" => posts[t] = <<>>
        /\ pc[t] \in {"awaiting", "forwarded", "done"} =>
              /\ Len(posts[t]) = 1
              /\ posts[t][1].method = MethodOf(req[t].handler)

\* C12 witness: a discovery handler has returned the fallback listing after
\* a failed forward, with one POST issued.
C12_Witness ==
    \E t \in Tasks :
        /\ pc[t] = "done"
        /\ req[t].handler \in {"list_tools", "list_prompts"}
        /\ reply[t].kind \in {"network", "timeout", "status"}
        /\ response[t] \in {Returned(JList(<<FALLBACK_TOOL>>)),
                             Returned(JList(<<FALLBACK_PROMPT>>))}
        /\ Len(posts[t]) = 1

\* the request invocation t encodes for its own handler, name and arguments
\* (lines 115, 167, 219, 242-249)
OwnPost(r) ==
    CASE r.handler = "list_tools"   -> Posted("tools/list", JDict(<<>>))
      [] r.handler = "list_prompts" -> Posted("tools/list_prompts", JDict(<<>>))
      [] r.handler = "call_tool"    ->
             Posted("tools/call", JDict(<<KV("name", JStr(r.name)),
                                          KV("arguments", r.arguments)>>))
      [] r.handler = "get_prompt"   ->
             Posted("tools/get_prompt",
                    JDict(<<KV("name", JStr(r.name)),
                            KV("arguments", prompt_arguments(r.name, r.arguments))>>))

\* the response the invocation of request r produces when it runs alone and
\* the backend does b: decode, then (for a tool call) truncate, then shape
Alone(r, b) ==
    CASE r.handler = "list_tools"   -> list_tools(forward_to_nlweb(b))
      [] r.handler = "list_prompts" -> list_prompts(forward_to_nlweb(b))
      [] r.handler = "call_tool"    -> call_tool(forward_to_nlweb(b))
      [] r.handler = "get_prompt"   ->
             get_prompt(r.name, r.arguments, forward_to_nlweb(b))

\* what each invocation holds depends on its own request and reply alone
Independent ==
    \A t \in Invocations :
        /\ pc[t] \in {"awaiting", "forwarded", "done"} =>
              post[t] = OwnPost(req[t]) /\ posts[t] = <<OwnPost(req[t])>>
        /\ pc[t] \in {"forwarded", "done"} =>
              outcome[t] = forward_to_nlweb(reply[t])
        /\ pc[t] = "done" => response[t] = Alone(req[t], reply[t])

\* an invocation moves from encode and forward (suspended at the POST) to
\* decode, then to truncate and shape, then to delivery, and in no other way
InOrder ==
    \A t \in Invocations :
        pc'[t] # pc[t] =>
            <<pc[t], pc'[t]>> \in { <<"idle", "awaiting">>,
                                    <<"awaiting", "forwarded">>,
                                    <<"forwarded", "done">>,
                                    <<"done", "idle">> }

----------------------------------------------------------------------------
(* Properties of get_embedding_model *)

\* at most one instance is constructed, the handle is that instance, every
\* caller that has returned holds it, and a caller whose call raised holds
\* neither a value nor the lock
OneInstance ==
    /\ Len(Constructed) <= 1
    /\ embedding_model = (IF Constructed = <<>> THEN NoModel
                          ELSE Constructed[1].instance)
    /\ \A c \in Callers :
          /\ epc[c] = "returned" =>
                /\ Constructed # <<>>
                /\ got[c] = [exc |-> "none", val |-> Constructed[1].instance]
          /\ epc[c] = "raised" => got[c].exc = "Exception" /\ model_lock # c

\* a load that raises leaves the handle unset and the lock free, and a
\* caller that finds the handle unset under the lock goes on to load
RaiseLeavesUnset ==
    \A c \in Callers :
        /\ (epc[c] = "loading" /\ epc'[c] = "raised") =>
              embedding_model' = NoModel /\ model_lock' = 0
        /\ (epc[c] = "locked" /\ epc'[c] # "locked" /\ embedding_model = NoModel) =>
              epc'[c] = "loading"

====
